---- MODULE Spec2Model ----
(***************************************************************************)
(* Model of the Zillow API client of src/zillow.go.                        *)
(*                                                                         *)
(* A Go string is a sequence of one-character strings.  A client call is   *)
(* a small process: it builds url.Values, issues one http.Get, has the     *)
(* response body decoded by encoding/xml into its local result variable    *)
(* and returns (pointer, error).                                           *)
(***************************************************************************)
EXTENDS Integers, Sequences, FiniteSets, TLC

(***************************************************************************)
(* Bounds of the model.                                                    *)
(***************************************************************************)
\* largest number of child elements in a response body
MaxElems == 3
\* number of calls in flight at once in SpecConc
NConc == 2

(***************************************************************************)
(* Characters and bytes.                                                   *)
(***************************************************************************)
DigitSeq == <<"0","1","2","3","4","5","6","7","8","9">>
UpperSeq == <<"A","B","C","D","E","F","G","H","I","J","K","L","M",
              "N","O","P","Q","R","S","T","U","V","W","X","Y","Z">>
LowerSeq == <<"a","b","c","d","e","f","g","h","i","j","k","l","m",
              "n","o","p","q","r","s","t","u","v","w","x","y","z">>
HexSeq == <<"0","1","2","3","4","5","6","7","8","9","A","B","C","D","E","F">>

Range(s) == {s[i] : i \in DOMAIN s}
IndexOf(s, ch) == CHOOSE i \in DOMAIN s : s[i] = ch

\* the byte value of a character of the model's alphabet
Byte(ch) ==
  CASE ch \in Range(DigitSeq) -> 47 + IndexOf(DigitSeq, ch)
    [] ch \in Range(UpperSeq) -> 64 + IndexOf(UpperSeq, ch)
    [] ch \in Range(LowerSeq) -> 96 + IndexOf(LowerSeq, ch)
    [] ch = " " -> 32
    [] ch = "%" -> 37
    [] ch = "&" -> 38
    [] ch = "+" -> 43
    [] ch = "-" -> 45
    [] ch = "." -> 46
    [] ch = "/" -> 47
    [] ch = ":" -> 58
    [] ch = "=" -> 61
    [] ch = "?" -> 63
    [] ch = "_" -> 95
    [] ch = "~" -> 126

\* bytes.Compare on two strings: TRUE iff a sorts strictly before b
RECURSIVE StrLess(_, _)
StrLess(a, b) ==
  IF b = <<>> THEN FALSE
  ELSE IF a = <<>> THEN TRUE
  ELSE IF Byte(Head(a)) # Byte(Head(b)) THEN Byte(Head(a)) < Byte(Head(b))
  ELSE StrLess(Tail(a), Tail(b))

(***************************************************************************)
(* strconv                                                                 *)
(***************************************************************************)
RECURSIVE FormatUint(_)
FormatUint(n) ==
  IF n < 10 THEN <<DigitSeq[n + 1]>>
  ELSE FormatUint(n \div 10) \o <<DigitSeq[(n % 10) + 1]>>

\* strconv.Itoa
Itoa(n) == IF n < 0 THEN <<"-">> \o FormatUint(-n) ELSE FormatUint(n)

\* strconv.FormatBool
FormatBool(b) == IF b THEN <<"t","r","u","e">> ELSE <<"f","a","l","s","e">>

IsDigits(s) == s # <<>> /\ \A i \in DOMAIN s : s[i] \in Range(DigitSeq)

RECURSIVE ParseUint(_)
ParseUint(s) ==
  IF s = <<>> THEN 0
  ELSE 10 * ParseUint(SubSeq(s, 1, Len(s) - 1)) + (IndexOf(DigitSeq, s[Len(s)]) - 1)

\* strconv.ParseInt(s, 10, 0) and strconv.ParseFloat on integral literals:
\* an optional sign followed by at least one decimal digit
ParseOk(s) ==
  \/ IsDigits(s)
  \/ s # <<>> /\ Head(s) \in {"-", "+"} /\ IsDigits(Tail(s))

ParseInt(s) ==
  IF Head(s) = "-" THEN 0 - ParseUint(Tail(s))
  ELSE IF Head(s) = "+" THEN ParseUint(Tail(s))
  ELSE ParseUint(s)

\* strconv.ParseBool
BoolTrue == { <<"1">>, <<"t">>, <<"T">>, <<"T","R","U","E">>,
              <<"t","r","u","e">>, <<"T","r","u","e">> }
BoolFalse == { <<"0">>, <<"f">>, <<"F">>, <<"F","A","L","S","E">>,
               <<"f","a","l","s","e">>, <<"F","a","l","s","e">> }
ParseBoolOk(s) == s \in BoolTrue \cup BoolFalse
ParseBool(s) == s \in BoolTrue

(***************************************************************************)
(* net/url                                                                 *)
(***************************************************************************)
\* url.shouldEscape(c, encodeQueryComponent)
shouldEscape(ch) ==
  ~ (ch \in Range(DigitSeq) \cup Range(UpperSeq) \cup Range(LowerSeq)
            \cup {"-", "_", ".", "~"})

\* url.QueryEscape
RECURSIVE QueryEscape(_)
QueryEscape(s) ==
  IF s = <<>> THEN <<>>
  ELSE (IF Head(s) = " " THEN <<"+">>
        ELSE IF shouldEscape(Head(s))
          THEN <<"%", HexSeq[(Byte(Head(s)) \div 16) + 1],
                      HexSeq[(Byte(Head(s)) % 16) + 1]>>
        ELSE <<Head(s)>>) \o QueryEscape(Tail(s))

MinKey(ks) == CHOOSE k \in ks : \A o \in ks \ {k} : StrLess(k, o)

RECURSIVE SortedKeys(_)
SortedKeys(ks) ==
  IF ks = {} THEN <<>>
  ELSE <<MinKey(ks)>> \o SortedKeys(ks \ {MinKey(ks)})

RECURSIVE EncodeKey(_, _, _)
EncodeKey(buf, k, vs) ==
  IF vs = <<>> THEN buf
  ELSE EncodeKey((IF buf = <<>> THEN <<>> ELSE buf \o <<"&">>)
                   \o QueryEscape(k) \o <<"=">> \o QueryEscape(Head(vs)),
                 k, Tail(vs))

RECURSIVE EncodeKeys(_, _, _)
EncodeKeys(buf, keys, values) ==
  IF keys = <<>> THEN buf
  ELSE EncodeKeys(EncodeKey(buf, Head(keys), values[Head(keys)]),
                  Tail(keys), values)

\* url.Values.Encode: "key=value" pairs, sorted by key, joined by "&"
Encode(values) == EncodeKeys(<<>>, SortedKeys(DOMAIN values), values)

(***************************************************************************)
(* The client: constants, configuration and the four operations.           *)
(***************************************************************************)
baseUrl == <<"h","t","t","p",":","/","/","w","w","w",".","z","i","l","l","o","w",".","c","o","m","/","w","e","b","s","e","r","v","i","c","e","/">>

zwsIdParam == <<"z","w","s","-","I","d">>
zpidParam == <<"z","p","i","d">>
rentzestimateParam == <<"r","e","n","t","z","e","s","t","i","m","a","t","e">>
addressParam == <<"a","d","d","r","e","s","s">>
cityStateZipParam == <<"c","i","t","y","s","t","a","t","e","z","i","p">>
unitTypeParam == <<"u","n","i","t","-","t","y","p","e">>
widthParam == <<"w","i","d","t","h">>
heightParam == <<"h","e","i","g","h","t">>
chartDurationParam == <<"c","h","a","r","t","D","u","r","a","t","i","o","n">>
countParam == <<"c","o","u","n","t">>

getZestimatePath == <<"G","e","t","Z","e","s","t","i","m","a","t","e">>
getSearchResults == <<"G","e","t","S","e","a","r","c","h","R","e","s","u","l","t","s">>
getChart == <<"G","e","t","C","h","a","r","t">>
getComps == <<"G","e","t","C","o","m","p","s">>

\* the suffix get appends to the service path
htmSuffix == <<".","h","t","m","?">>

\* NewZillow with the two fields of the struct literal in the wrong order
NewZillowSwapped(zwsId) == [zwsId |-> baseUrl, url |-> zwsId]

\* NewZillow: the zillow struct {zwsId, url}
NewZillow(zwsId) == [zwsId |-> zwsId, url |-> baseUrl]

\* Go's nil error, and the two kinds of error a call can meet
Nil == [kind |-> "nil", why |-> ""]
TransportErr(why) == [kind |-> "transport", why |-> why]
DecodeErr(why) == [kind |-> "decode", why |-> why]

\* the nil result pointer
NilPtr == 0

(***************************************************************************)
(* Result types.  Each is given by its zero value, the element name of     *)
(* its XMLName tag and its schema: for every tagged element path, the      *)
(* field it lands in, the field's type, and whether the field is a slice.  *)
(* The fields carried are Message (all results), Url (ChartResult),        *)
(* Principal and Comparables (CompsResult).                                *)
(***************************************************************************)
Message == [zero |-> [Text |-> <<>>, Code |-> 0, LimitWarning |-> FALSE],
            schema |->
              ("message>text" :> [field |-> <<"Message", "Text">>,
                                  type |-> "string", repeated |-> FALSE])
           @@ ("message>code" :> [field |-> <<"Message", "Code">>,
                                  type |-> "int", repeated |-> FALSE])
           @@ ("message>limit-warning" :>
                                 [field |-> <<"Message", "LimitWarning">>,
                                  type |-> "bool", repeated |-> FALSE])]

ZestimateResult ==
  [XMLName |-> "zestimate",
   zero |-> [XMLName |-> "", Message |-> Message.zero],
   schema |-> Message.schema]

SearchResults ==
  [XMLName |-> "searchresults",
   zero |-> [XMLName |-> "", Message |-> Message.zero],
   schema |-> Message.schema]

ChartResult ==
  [XMLName |-> "chart",
   zero |-> [XMLName |-> "", Message |-> Message.zero, Url |-> <<>>],
   schema |-> Message.schema
           @@ ("response>url" :> [field |-> <<"Url">>,
                                  type |-> "string", repeated |-> FALSE])]

CompsResultSingleComp ==
  [XMLName |-> "comps",
   zero |-> [XMLName |-> "", Message |-> Message.zero,
             Principal |-> [Zpid |-> <<>>], Comparables |-> <<>>],
   schema |-> Message.schema
           @@ ("response>properties>principal>zpid" :>
                 [field |-> <<"Principal", "Zpid">>,
                  type |-> "string", repeated |-> FALSE])
           @@ ("response>properties>comparables>comp" :>
                 [field |-> <<"Comparables">>,
                  type |-> "Comp", repeated |-> FALSE])]

CompsResult ==
  [XMLName |-> "comps",
   zero |-> [XMLName |-> "", Message |-> Message.zero,
             Principal |-> [Zpid |-> <<>>], Comparables |-> <<>>],
   schema |-> Message.schema
           @@ ("response>properties>principal>zpid" :>
                 [field |-> <<"Principal", "Zpid">>,
                  type |-> "string", repeated |-> FALSE])
           @@ ("response>properties>comparables>comp" :>
                 [field |-> <<"Comparables">>,
                  type |-> "Comp", repeated |-> TRUE])]

(***************************************************************************)
(* encoding/xml.  A response body is [root, elems, end]: the name of its   *)
(* root element ("" when the body holds no element at all), the elements   *)
(* below the root in document order, each [path, attr, text] with the path *)
(* of element names from the root, the value of its score attribute and    *)
(* its character data, and whether the root element is closed properly or  *)
(* the decoder meets a syntax error (or the end of the body) after elems.  *)
(* Decode reads one element from the stream: bytes after the closing tag   *)
(* of the root are never read.                                             *)
(***************************************************************************)
xmlSet(val, field, x) ==
  IF Len(field) = 1 THEN [val EXCEPT ![field[1]] = x]
  ELSE [val EXCEPT ![field[1]][field[2]] = x]

\* unmarshal of one element into the field its path is tagged for;
\* an element no tag names is skipped
xmlElem(schema, val, e) ==
  IF e.path \notin DOMAIN schema THEN [val |-> val, err |-> Nil]
  ELSE LET f == schema[e.path] IN
    CASE f.type = "string" ->
           [val |-> xmlSet(val, f.field, e.text), err |-> Nil]
      [] f.type = "int" ->
           IF ParseOk(e.text)
             THEN [val |-> xmlSet(val, f.field, ParseInt(e.text)), err |-> Nil]
             ELSE [val |-> val, err |-> DecodeErr("strconv")]
      [] f.type = "bool" ->
           IF ParseBoolOk(e.text)
             THEN [val |-> xmlSet(val, f.field, ParseBool(e.text)), err |-> Nil]
             ELSE [val |-> val, err |-> DecodeErr("strconv")]
      [] f.type = "Comp" ->
           IF ParseOk(e.attr)
             THEN LET comp == [Score |-> ParseInt(e.attr), Zpid |-> e.text] IN
                  [val |-> xmlSet(val, f.field,
                                  IF f.repeated
                                    THEN Append(val[f.field[1]], comp)
                                    ELSE <<comp>>),
                   err |-> Nil]
             ELSE [val |-> val, err |-> DecodeErr("strconv")]

RECURSIVE xmlElems(_, _, _)
xmlElems(schema, val, elems) ==
  IF elems = <<>> THEN [val |-> val, err |-> Nil]
  ELSE LET r == xmlElem(schema, val, Head(elems)) IN
       IF r.err # Nil THEN r ELSE xmlElems(schema, r.val, Tail(elems))

\* xml.NewDecoder(body).Decode(result), result pointing at val
xmlDecode(type, val, body) ==
  IF body.root = "" THEN [val |-> val, err |-> DecodeErr("EOF")]
  ELSE IF body.root # type.XMLName
    THEN [val |-> val, err |-> DecodeErr("expected element type")]
  ELSE LET r == xmlElems(type.schema,
                         [val EXCEPT !.XMLName = body.root], body.elems) IN
       IF r.err = Nil /\ body.end = "syntaxerror"
         THEN [val |-> r.val, err |-> DecodeErr("syntax")]
         ELSE r

(***************************************************************************)
(* The four operations: the service path and url.Values each hands to get, *)
(* and the type of the result variable it declares.                        *)
(***************************************************************************)
GetZestimate(z, request) ==
  [servicePath |-> getZestimatePath,
   values |-> (zwsIdParam :> <<z.zwsId>>)
           @@ (zpidParam :> <<request.Zpid>>)
           @@ (rentzestimateParam :> <<FormatBool(request.Rentzestimate)>>),
   result |-> ZestimateResult]

GetSearchResults(z, request) ==
  [servicePath |-> getSearchResults,
   values |-> (zwsIdParam :> <<z.zwsId>>)
           @@ (addressParam :> <<request.Address>>)
           @@ (cityStateZipParam :> <<request.CityStateZip>>)
           @@ (rentzestimateParam :> <<FormatBool(request.Rentzestimate)>>),
   result |-> SearchResults]

\* GetChart with width and height taken from each other's field
GetChartSwapped(z, request) ==
  [servicePath |-> getChart,
   values |-> (zwsIdParam :> <<z.zwsId>>)
           @@ (zpidParam :> <<request.Zpid>>)
           @@ (unitTypeParam :> <<request.UnitType>>)
           @@ (widthParam :> <<Itoa(request.Height)>>)
           @@ (heightParam :> <<Itoa(request.Width)>>)
           @@ (chartDurationParam :> <<request.Duration>>),
   result |-> ChartResult]

GetChart(z, request) ==
  [servicePath |-> getChart,
   values |-> (zwsIdParam :> <<z.zwsId>>)
           @@ (zpidParam :> <<request.Zpid>>)
           @@ (unitTypeParam :> <<request.UnitType>>)
           @@ (widthParam :> <<Itoa(request.Width)>>)
           @@ (heightParam :> <<Itoa(request.Height)>>)
           @@ (chartDurationParam :> <<request.Duration>>),
   result |-> ChartResult]

\* GetComps handing get the path of GetChart
GetCompsChartPath(z, request) ==
  [servicePath |-> getChart,
   values |-> (zwsIdParam :> <<z.zwsId>>)
           @@ (zpidParam :> <<request.Zpid>>)
           @@ (countParam :> <<Itoa(request.Count)>>)
           @@ (rentzestimateParam :> <<FormatBool(request.Rentzestimate)>>),
   result |-> CompsResult]

GetComps(z, request) ==
  [servicePath |-> getComps,
   values |-> (zwsIdParam :> <<z.zwsId>>)
           @@ (zpidParam :> <<request.Zpid>>)
           @@ (countParam :> <<Itoa(request.Count)>>)
           @@ (rentzestimateParam :> <<FormatBool(request.Rentzestimate)>>),
   result |-> CompsResult]

Ops == {"GetZestimate", "GetSearchResults", "GetChart", "GetComps"}

Method(o, z, request) ==
  CASE o = "GetZestimate" -> GetZestimate(z, request)
    [] o = "GetSearchResults" -> GetSearchResults(z, request)
    [] o = "GetChart" -> GetChart(z, request)
    [] o = "GetComps" -> GetComps(z, request)

\* the result type alone, which does not depend on the request
ResultType(o) ==
  CASE o = "GetZestimate" -> ZestimateResult
    [] o = "GetSearchResults" -> SearchResults
    [] o = "GetChart" -> ChartResult
    [] o = "GetComps" -> CompsResult

\* get, line 225: the URL handed to http.Get
getUrl(z, servicePath, values) ==
  z.url \o <<"/">> \o servicePath \o htmSuffix \o Encode(values)

\* get decoding whatever http.Get returned, its error ignored
getAfterHttpIgnoreErr(resp) == [pc |-> "decode", err |-> Nil]

\* get issuing the request again after a transport error
getAfterHttpRetry(resp) ==
  IF resp.kind = "fail" THEN [pc |-> "get", err |-> Nil]
  ELSE [pc |-> "decode", err |-> Nil]

\* get turning a status other than 200 into an error
getAfterHttpStatus(resp) ==
  IF resp.kind = "fail" THEN [pc |-> "return", err |-> resp.err]
  ELSE IF resp.status # "200 OK"
    THEN [pc |-> "return", err |-> [kind |-> "status", why |-> resp.status]]
  ELSE [pc |-> "decode", err |-> Nil]

\* get, lines 225-226: what get does once http.Get has returned
getAfterHttp(resp) ==
  IF resp.kind = "fail" THEN [pc |-> "return", err |-> resp.err]
  ELSE [pc |-> "decode", err |-> Nil]

\* get turning a nonzero message code into an error
getAfterDecodeCode(d) ==
  IF d.err = Nil /\ d.val.Message.Code # 0
    THEN [kind |-> "api", why |-> "message code"]
    ELSE d.err

\* get, lines 227-230: what get returns once Decode has returned d
getAfterDecode(d) == d.err

\* one result variable shared by all calls
resultVarShared(c) == 1

\* each operation's "var result T": the variable is the call's own
resultVar(c) == c

\* an operation returning &result together with the error
methodReturnBoth(err, resultPtr) == [result |-> resultPtr, err |-> err]

\* each operation's last statement: (nil, err) or (&result, nil)
methodReturn(err, resultPtr) ==
  IF err # Nil THEN [result |-> NilPtr, err |-> err]
  ELSE [result |-> resultPtr, err |-> Nil]

(***************************************************************************)
(* Inputs.                                                                 *)
(***************************************************************************)
KeyInputs == { <<"X","1">>, <<"k"," ","&">> }
StrInputs == { <<"4","8">>, <<"a"," ","&">> }
IntInputs == { 0 - 12, 0, 305 }

RequestInputs(o) ==
  CASE o = "GetZestimate" ->
         [Zpid : StrInputs, Rentzestimate : BOOLEAN]
    [] o = "GetSearchResults" ->
         [Address : StrInputs, CityStateZip : StrInputs, Rentzestimate : BOOLEAN]
    [] o = "GetChart" ->
         [Zpid : StrInputs, UnitType : StrInputs, Width : IntInputs,
          Height : IntInputs, Duration : StrInputs]
    [] o = "GetComps" ->
         [Zpid : StrInputs, Count : IntInputs, Rentzestimate : BOOLEAN]

StatusInputs == { "200 OK", "404 Not Found" }
TransportInputs == { "connection refused", "timeout" }

Elem(path, attr, text) == [path |-> path, attr |-> attr, text |-> text]

ElemInputs ==
  { Elem("message>text", <<>>, <<"E","r","r","o","r">>),
    Elem("message>code", <<>>, <<"5","0","8">>),
    Elem("message>code", <<>>, <<"x">>),
    Elem("message>limit-warning", <<>>, <<"t","r","u","e">>),
    Elem("response>properties>principal>zpid", <<>>, <<"4","8">>),
    Elem("response>properties>comparables>comp", <<"1">>, <<"1","1">>),
    Elem("response>properties>comparables>comp", <<"2","5">>, <<"2","2">>),
    Elem("response>url", <<>>, <<"u">>),
    Elem("unknown", <<>>, <<>>) }

RootInputs == { "zestimate", "searchresults", "chart", "comps" }

SeqsUpTo(S, n) == UNION { [1..k -> S] : k \in 0..n }

\* a body without any element: the decoder reports the end of the input
EmptyBody == [root |-> "", elems |-> <<>>, end |-> "syntaxerror"]

\* the bodies an operation expecting root element name may be sent: every
\* body under that root, short bodies under another root, the empty body
BodyInputs(name) ==
  [root : {name}, elems : SeqsUpTo(ElemInputs, MaxElems),
   end : {"closed", "syntaxerror"}]
  \cup [root : RootInputs \ {name}, elems : SeqsUpTo(ElemInputs, 1),
        end : {"closed", "syntaxerror"}]
  \cup {EmptyBody}

\* the smaller inputs of the concurrent specification
ConcKeyInputs == { <<"X","1">> }
ConcRequestInputs(o) ==
  { r \in RequestInputs(o) :
      \A f \in DOMAIN r :
        CASE f \in {"Width", "Height", "Count"} -> r[f] = 305
          [] f = "Rentzestimate" -> r[f] = FALSE
          [] OTHER -> r[f] = <<"4","8">> }
ConcStatusInputs == { "200 OK" }
ConcTransportInputs == { "timeout" }
ConcBodyInputs(name) ==
  { [root |-> name, elems |-> es, end |-> "closed"] :
      es \in { <<>>,
               <<Elem("message>code", <<>>, <<"5","0","8">>)>>,
               <<Elem("response>properties>comparables>comp", <<"2","5">>, <<"2","2">>)>> } }
  \cup {EmptyBody}

(***************************************************************************)
(* State.                                                                  *)
(***************************************************************************)
VARIABLES
  key,      \* the key NewZillow was given
  z,        \* the client
  pc,       \* pc[c]: where call c stands
  op,       \* op[c]: the operation call c runs
  request,  \* request[c]: the request struct call c was given
  call,     \* call[c]: the service path and values the operation hands to get
  net,      \* net[c]: the URL of the GET call c has in flight
  resp,     \* resp[c]: what came back for call c's GET
  err,      \* err[c]: the error get returns
  result,   \* result[v]: the contents of result variable v
  ret,      \* ret[c]: the (result pointer, error) pair call c returned
  gets,     \* gets[c]: http.Get calls made by call c
  decodes   \* decodes[c]: Decode calls made by call c

vars == <<key, z, pc, op, request, call, net, resp, err, result, ret, gets, decodes>>

Calls == DOMAIN pc

NoRequest == [none |-> TRUE]
NoCall == [servicePath |-> <<>>, values |-> <<>>]
NoUrl == <<>>
NoBody == [root |-> "", elems |-> <<>>, end |-> "none"]
NoResp == [kind |-> "none", status |-> "", err |-> Nil, body |-> NoBody]
NoResult == [XMLName |-> ""]
NoRet == [result |-> NilPtr, err |-> Nil]

InitWith(P, K) ==
  /\ key \in K
  /\ z = NewZillow(key)
  /\ pc = [c \in P |-> "idle"]
  /\ op = [c \in P |-> "none"]
  /\ request = [c \in P |-> NoRequest]
  /\ call = [c \in P |-> NoCall]
  /\ net = [c \in P |-> NoUrl]
  /\ resp = [c \in P |-> NoResp]
  /\ err = [c \in P |-> Nil]
  /\ result = [c \in P |-> NoResult]
  /\ ret = [c \in P |-> NoRet]
  /\ gets = [c \in P |-> 0]
  /\ decodes = [c \in P |-> 0]

(***************************************************************************)
(* Steps of a call.                                                        *)
(***************************************************************************)
\* the caller invokes operation o with request rq: the operation builds
\* its values and declares its zero result variable
Call(c, o, rq) ==
  /\ pc[c] = "idle"
  /\ LET m == Method(o, z, rq) IN
       /\ call' = [call EXCEPT ![c] = [servicePath |-> m.servicePath,
                                       values |-> m.values]]
       /\ result' = [result EXCEPT ![resultVar(c)] = m.result.zero]
  /\ op' = [op EXCEPT ![c] = o]
  /\ request' = [request EXCEPT ![c] = rq]
  /\ net' = [net EXCEPT ![c] = NoUrl]
  /\ resp' = [resp EXCEPT ![c] = NoResp]
  /\ err' = [err EXCEPT ![c] = Nil]
  /\ ret' = [ret EXCEPT ![c] = NoRet]
  /\ gets' = [gets EXCEPT ![c] = 0]
  /\ decodes' = [decodes EXCEPT ![c] = 0]
  /\ pc' = [pc EXCEPT ![c] = "get"]
  /\ UNCHANGED <<key, z>>

\* get calls http.Get with the URL it builds
HttpGet(c) ==
  /\ pc[c] = "get"
  /\ net' = [net EXCEPT ![c] = getUrl(z, call[c].servicePath, call[c].values)]
  /\ gets' = [gets EXCEPT ![c] = @ + 1]
  /\ pc' = [pc EXCEPT ![c] = "wait"]
  /\ UNCHANGED <<key, z, op, request, call, resp, err, result, ret, decodes>>

\* http.Get returns: r is the transport's answer to call c's request.
\* request and values were last read to build the URL (line 225) and are
\* dropped here.
HttpReturns(c, r) ==
  /\ pc[c] = "wait"
  /\ net' = [net EXCEPT ![c] = NoUrl]
  /\ resp' = [resp EXCEPT ![c] = r]
  /\ err' = [err EXCEPT ![c] = getAfterHttp(r).err]
  /\ pc' = [pc EXCEPT ![c] = getAfterHttp(r).pc]
  /\ request' = [request EXCEPT ![c] = NoRequest]
  /\ call' = [call EXCEPT ![c] = NoCall]
  /\ UNCHANGED <<key, z, op, result, ret, gets, decodes>>

\* the GET of call c fails in the transport
TransportFail(c, why) ==
  HttpReturns(c, [kind |-> "fail", status |-> "", err |-> TransportErr(why),
                  body |-> NoBody])

\* the server answers the GET of call c; the body is still to be read
Respond(c, status) ==
  HttpReturns(c, [kind |-> "response", status |-> status, err |-> Nil,
                  body |-> NoBody])

\* the decoder reads body from the response of call c into the result
\* variable
Decode(c, body) ==
  /\ pc[c] = "decode"
  /\ LET d == xmlDecode(ResultType(op[c]), result[resultVar(c)], body) IN
       /\ result' = [result EXCEPT ![resultVar(c)] = d.val]
       /\ err' = [err EXCEPT ![c] = getAfterDecode(d)]
  /\ resp' = [resp EXCEPT ![c].body = body]
  /\ decodes' = [decodes EXCEPT ![c] = @ + 1]
  /\ pc' = [pc EXCEPT ![c] = "return"]
  /\ UNCHANGED <<key, z, op, request, call, net, ret, gets>>

\* the operation returns to its caller
Return(c) ==
  /\ pc[c] = "return"
  /\ ret' = [ret EXCEPT ![c] = methodReturn(err[c], resultVar(c))]
  /\ pc' = [pc EXCEPT ![c] = "done"]
  /\ UNCHANGED <<key, z, op, request, call, net, resp, err, result, gets, decodes>>

\* the caller lets go of what call c returned; its next call starts afresh
Discard(c) ==
  /\ pc[c] = "done"
  /\ pc' = [pc EXCEPT ![c] = "idle"]
  /\ op' = [op EXCEPT ![c] = "none"]
  /\ resp' = [resp EXCEPT ![c] = NoResp]
  /\ err' = [err EXCEPT ![c] = Nil]
  /\ result' = [result EXCEPT ![resultVar(c)] = NoResult]
  /\ ret' = [ret EXCEPT ![c] = NoRet]
  /\ gets' = [gets EXCEPT ![c] = 0]
  /\ decodes' = [decodes EXCEPT ![c] = 0]
  /\ UNCHANGED <<key, z, request, call, net>>

(***************************************************************************)
(* Spec: one call at a time, over the full inputs.                         *)
(***************************************************************************)
Init == InitWith({1}, KeyInputs)

Next ==
  \E c \in Calls :
    \/ \E o \in Ops : \E rq \in RequestInputs(o) : Call(c, o, rq)
    \/ HttpGet(c)
    \/ \E why \in TransportInputs : TransportFail(c, why)
    \/ \E status \in StatusInputs : Respond(c, status)
    \/ /\ pc[c] = "decode"
       /\ \E body \in BodyInputs(ResultType(op[c]).XMLName) : Decode(c, body)
    \/ Return(c)
    \/ Discard(c)

Spec == Init /\ [][Next]_vars

(***************************************************************************)
(* SpecConc: NConc calls on the same client, interleaved step by step.     *)
(***************************************************************************)
InitConc == InitWith(1..NConc, ConcKeyInputs)

NextConc ==
  \E c \in Calls :
    \/ \E o \in Ops : \E rq \in ConcRequestInputs(o) : Call(c, o, rq)
    \/ HttpGet(c)
    \/ \E why \in ConcTransportInputs : TransportFail(c, why)
    \/ \E status \in ConcStatusInputs : Respond(c, status)
    \/ /\ pc[c] = "decode"
       /\ \E body \in ConcBodyInputs(ResultType(op[c]).XMLName) : Decode(c, body)
    \/ Return(c)
    \/ Discard(c)

SpecConc == InitConc /\ [][NextConc]_vars

(***************************************************************************)
(* Properties.                                                             *)
(***************************************************************************)
True == <<"t","r","u","e">>
False == <<"f","a","l","s","e">>
Decimal(s, n) == ParseOk(s) /\ Head(s) # "+" /\ ParseInt(s) = n

KeysOf(o) ==
  CASE o = "GetZestimate" -> {zwsIdParam, zpidParam, rentzestimateParam}
    [] o = "GetSearchResults" ->
         {zwsIdParam, addressParam, cityStateZipParam, rentzestimateParam}
    [] o = "GetChart" ->
         {zwsIdParam, zpidParam, unitTypeParam, widthParam, heightParam,
          chartDurationParam}
    [] o = "GetComps" -> {zwsIdParam, zpidParam, countParam, rentzestimateParam}

ValuesOf(o, v, r) ==
  CASE o = "GetZestimate" ->
         /\ v[zpidParam][1] = r.Zpid
         /\ v[rentzestimateParam][1] = (IF r.Rentzestimate THEN True ELSE False)
    [] o = "GetSearchResults" ->
         /\ v[addressParam][1] = r.Address
         /\ v[cityStateZipParam][1] = r.CityStateZip
         /\ v[rentzestimateParam][1] = (IF r.Rentzestimate THEN True ELSE False)
    [] o = "GetChart" ->
         /\ v[zpidParam][1] = r.Zpid
         /\ v[unitTypeParam][1] = r.UnitType
         /\ Decimal(v[widthParam][1], r.Width)
         /\ Decimal(v[heightParam][1], r.Height)
         /\ v[chartDurationParam][1] = r.Duration
    [] o = "GetComps" ->
         /\ v[zpidParam][1] = r.Zpid
         /\ Decimal(v[countParam][1], r.Count)
         /\ v[rentzestimateParam][1] = (IF r.Rentzestimate THEN True ELSE False)

\* C1: the parameters an operation hands to get have exactly the operation's
\* keys, one value each: the key given to NewZillow under zws-Id, string
\* fields unchanged, booleans as "true"/"false", integers in base 10.
C1_Parameters ==
  \A c \in Calls :
    pc[c] \in {"get", "wait"} =>
      /\ DOMAIN call[c].values = KeysOf(op[c])
      /\ \A k \in DOMAIN call[c].values : Len(call[c].values[k]) = 1
      /\ call[c].values[zwsIdParam][1] = key
      /\ ValuesOf(op[c], call[c].values, request[c])

C1_Witness ==
  \E c \in Calls :
    /\ pc[c] = "get"
    /\ op[c] = "GetChart"
    /\ request[c].Width < 0
    /\ request[c].Height = 305
    /\ Len(call[c].values[widthParam][1]) = 3

PathOf(o) ==
  CASE o = "GetZestimate" -> <<"G","e","t","Z","e","s","t","i","m","a","t","e">>
    [] o = "GetSearchResults" ->
         <<"G","e","t","S","e","a","r","c","h","R","e","s","u","l","t","s">>
    [] o = "GetChart" -> <<"G","e","t","C","h","a","r","t">>
    [] o = "GetComps" -> <<"G","e","t","C","o","m","p","s">>

HasPrefix(s, p) == Len(s) >= Len(p) /\ SubSeq(s, 1, Len(p)) = p
Count(s, ch) == Cardinality({i \in DOMAIN s : s[i] = ch})
Endpoint(o) == z.url \o <<"/">> \o PathOf(o) \o <<".","h","t","m","?">>

\* C2: the GET of an operation goes to <base-url>/<OperationPath>.htm?<query>
\* with the operation's own path and the encoding of its parameters (one
\* key=value pair per parameter, joined by "&"), never to another
\* operation's path.
C2_RequestUrl ==
  \A c \in Calls :
    pc[c] = "wait" =>
      /\ net[c] = Endpoint(op[c]) \o Encode(call[c].values)
      /\ \A o \in Ops \ {op[c]} : ~ HasPrefix(net[c], Endpoint(o))
      /\ Count(Encode(call[c].values), "=") = Cardinality(KeysOf(op[c]))
      /\ Count(Encode(call[c].values), "&") = Cardinality(KeysOf(op[c])) - 1

C2_Witness ==
  \E c \in Calls :
    /\ pc[c] = "wait"
    /\ op[c] = "GetComps"
    /\ request[c].Zpid = <<"a"," ","&">>
    /\ Count(net[c], "+") = 1

\* C3: when the GET fails in the transport, the operation returns that
\* error unchanged with a nil result, and nothing is decoded.
C3_TransportError ==
  \A c \in Calls :
    resp[c].kind = "fail" =>
      /\ decodes[c] = 0
      /\ pc[c] \in {"return", "done"}
      /\ pc[c] = "done" => ret[c] = [result |-> NilPtr, err |-> resp[c].err]

C3_Witness ==
  \E c \in Calls :
    /\ pc[c] = "done"
    /\ resp[c].kind = "fail"
    /\ ret[c].err = TransportErr("connection refused")

RootOf(o) ==
  CASE o = "GetZestimate" -> "zestimate"
    [] o = "GetSearchResults" -> "searchresults"
    [] o = "GetChart" -> "chart"
    [] o = "GetComps" -> "comps"

\* the element paths the result structure of operation o has a field for
KnownPaths(o) ==
  {"message>text", "message>code", "message>limit-warning"}
  \cup (IF o = "GetChart" THEN {"response>url"} ELSE {})
  \cup (IF o = "GetComps"
          THEN {"response>properties>principal>zpid",
                "response>properties>comparables>comp"}
          ELSE {})

\* the body is an XML document of the shape operation o expects: its root,
\* properly closed, holding a message block and nothing the result has no
\* place for
Conforms(o, body) ==
  /\ body.root = RootOf(o)
  /\ body.end = "closed"
  /\ \A i \in DOMAIN body.elems : body.elems[i].path \in KnownPaths(o)
  /\ \E i \in DOMAIN body.elems : body.elems[i].path = "message>code"

\* the decoder fails on the body: no root element, a root of another name,
\* a syntax error before the root is closed, or a number or boolean that
\* does not parse
DecodeFails(o, body) ==
  \/ body.root # RootOf(o)
  \/ body.end # "closed"
  \/ \E i \in DOMAIN body.elems :
       \/ body.elems[i].path = "message>code" /\ ~ ParseOk(body.elems[i].text)
       \/ /\ body.elems[i].path = "message>limit-warning"
          /\ body.elems[i].text \notin BoolTrue \cup BoolFalse
       \/ /\ o = "GetComps"
          /\ body.elems[i].path = "response>properties>comparables>comp"
          /\ ~ ParseOk(body.elems[i].attr)

Answered(c) == pc[c] = "done" /\ resp[c].kind = "response"

\* C4 as stated: a body that is malformed or not of the expected structure
\* gives a decode error and a nil result.
C4_Original ==
  \A c \in Calls :
    Answered(c) /\ ~ Conforms(op[c], resp[c].body) =>
      ret[c].result = NilPtr /\ ret[c].err.kind = "decode"

\* C4 (amended): when the decoder fails on the body, the operation returns
\* the decode error and a nil result; a body under the expected root whose
\* elements are missing or unknown decodes without error, and the caller
\* gets a result with zero values in the fields the body did not fill.
C4_DecodeError ==
  \A c \in Calls :
    Answered(c) =>
      IF DecodeFails(op[c], resp[c].body)
        THEN ret[c].result = NilPtr /\ ret[c].err.kind = "decode"
        ELSE ret[c].result # NilPtr /\ ret[c].err = Nil

C4_Witness ==
  \E c \in Calls :
    /\ Answered(c)
    /\ resp[c].body.root = RootOf(op[c])
    /\ resp[c].body.end = "syntaxerror"
    /\ Len(resp[c].body.elems) = 2
    /\ result[resultVar(c)].Message.Code = 508
    /\ ret[c] = [result |-> NilPtr, err |-> DecodeErr("syntax")]

Max(S) == CHOOSE m \in S : \A n \in S : n <= m
Last(elems, path) ==
  LET I == {i \in DOMAIN elems : elems[i].path = path} IN
  IF I = {} THEN <<>> ELSE <<elems[Max(I)].text>>

\* C5: when the GET succeeds and the body decodes, the operation returns a
\* non-nil result and a nil error whatever the message block holds, and the
\* message text, code and limit-warning are in the result's Message field.
C5_MessageNotInterpreted ==
  \A c \in Calls :
    Answered(c) /\ ~ DecodeFails(op[c], resp[c].body) =>
      /\ ret[c].err = Nil
      /\ ret[c].result # NilPtr
      /\ LET m == result[ret[c].result].Message
             text == Last(resp[c].body.elems, "message>text")
             code == Last(resp[c].body.elems, "message>code")
             warn == Last(resp[c].body.elems, "message>limit-warning")
         IN /\ m.Text = (IF text = <<>> THEN <<>> ELSE text[1])
            /\ m.Code = (IF code = <<>> THEN 0 ELSE ParseInt(code[1]))
            /\ m.LimitWarning = (warn # <<>> /\ warn[1] \in BoolTrue)

C5_Witness ==
  \E c \in Calls :
    /\ Answered(c)
    /\ ret[c].err = Nil
    /\ ret[c].result # NilPtr
    /\ result[ret[c].result].Message =
         [Text |-> <<"E","r","r","o","r">>, Code |-> 508, LimitWarning |-> TRUE]

\* C6: a call makes exactly one HTTP GET before it returns, on every path.
C6_OneGet ==
  \A c \in Calls :
    /\ gets[c] <= 1
    /\ pc[c] \in {"return", "done"} => gets[c] = 1

C6_Witness ==
  \E c \in Calls :
    /\ pc[c] = "done"
    /\ resp[c].kind = "fail"
    /\ gets[c] = 1

\* what call c returns when it is the only call, given its own response
Alone(c) ==
  IF resp[c].kind = "fail" THEN [err |-> resp[c].err, val |-> <<>>]
  ELSE LET d == xmlDecode(ResultType(op[c]), ResultType(op[c]).zero, resp[c].body)
       IN IF d.err # Nil THEN [err |-> d.err, val |-> <<>>]
          ELSE [err |-> Nil, val |-> <<d.val>>]

\* C7: under every interleaving of concurrent calls, the request of a call
\* is built from its own request struct and the client configuration, its
\* outcome is the one its own response gives it when it runs alone, and no
\* two calls hold the same result structure.
C7_Independent ==
  \A c \in Calls :
    /\ pc[c] = "wait" =>
         LET m == Method(op[c], z, request[c]) IN
         net[c] = getUrl(z, m.servicePath, m.values)
    /\ pc[c] = "done" =>
         /\ ret[c].err = Alone(c).err
         /\ (ret[c].result = NilPtr) = (Alone(c).val = <<>>)
         /\ ret[c].result # NilPtr => result[ret[c].result] = Alone(c).val[1]
         /\ \A d \in Calls \ {c} :
              pc[d] = "done" /\ ret[c].result # NilPtr =>
                ret[d].result # ret[c].result

C7_Witness ==
  \E c \in Calls : \E d \in Calls \ {c} :
    /\ pc[c] = "done" /\ ret[c].result # NilPtr
    /\ pc[d] = "done" /\ ret[d].result # NilPtr
    /\ op[c] = "GetComps" /\ op[d] = "GetChart"
    /\ result[ret[c].result].Comparables # <<>>
    /\ result[ret[d].result].Message.Code = 508

\* C8: whatever calls are made and however they end, the client keeps the
\* key given to NewZillow and the fixed default base URL.
C8_ConfigUnchanged == z.zwsId = key /\ z.url = baseUrl

C8_Witness ==
  \E c \in Calls :
    /\ pc[c] = "done"
    /\ ret[c].err.kind = "decode"
    /\ z = [zwsId |-> <<"k"," ","&">>, url |-> baseUrl]

CompElems(body) ==
  SelectSeq(body.elems,
            LAMBDA e : e.path = "response>properties>comparables>comp")

\* C9: GetComps on a body that decodes returns as many Comparables as the
\* body has comp elements, in document order, each with the score (and
\* zpid) of its own element.
C9_Comparables ==
  \A c \in Calls :
    Answered(c) /\ op[c] = "GetComps" /\ ~ DecodeFails(op[c], resp[c].body) =>
      /\ ret[c].result # NilPtr
      /\ LET out == result[ret[c].result].Comparables
             in == CompElems(resp[c].body)
         IN /\ Len(out) = Len(in)
            /\ \A i \in DOMAIN in :
                 /\ out[i].Score = ParseInt(in[i].attr)
                 /\ out[i].Zpid = in[i].text

C9_Witness ==
  \E c \in Calls :
    /\ Answered(c) /\ op[c] = "GetComps" /\ ret[c].result # NilPtr
    /\ Len(resp[c].body.elems) = 3
    /\ resp[c].body.elems[1].path = "response>properties>principal>zpid"
    /\ LET out == result[ret[c].result].Comparables
       IN Len(out) = 2 /\ out[1].Score = 25 /\ out[2].Score = 1

\* C10: a call ends in one of three outcomes: nil result with the transport
\* error, nil result with a decode error, or a result with a nil error.
C10_Outcomes ==
  \A c \in Calls :
    pc[c] = "done" =>
      \/ /\ ret[c].result = NilPtr
         /\ resp[c].kind = "fail"
         /\ ret[c].err = resp[c].err
         /\ ret[c].err.kind = "transport"
      \/ /\ ret[c].result = NilPtr
         /\ resp[c].kind = "response"
         /\ ret[c].err.kind = "decode"
      \/ /\ ret[c].result # NilPtr
         /\ resp[c].kind = "response"
         /\ ret[c].err = Nil

C10_Witness ==
  \E c \in Calls :
    /\ pc[c] = "done"
    /\ resp[c].status = "404 Not Found"
    /\ ret[c].result # NilPtr
    /\ ret[c].err = Nil

====
